---- MODULE Spec2Model ----
(***************************************************************************)
(* Model of pyqt_fit.nonparam_regression.NonParamRegression.               *)
(*                                                                         *)
(* An array is modelled by its shape (a sequence of extents); a bound      *)
(* vector by its shape and its fill.  Python's None is the string "None"   *)
(* for the object-valued fields and the empty tuple for the array- and     *)
(* integer-valued ones (Some(v) == <<v>>).  Every method is a pure         *)
(* operator from the object's fields to the fields after the call and the  *)
(* exception raised ("none" when it returns); the actions apply them to    *)
(* the instance `self` and, in SpecCopy, to the instance copy() returned.  *)
(***************************************************************************)
EXTENDS Integers, Sequences, FiniteSets, TLC

VARIABLES
    alive,      \* TRUE once __init__ has returned an instance
    self,       \* the instance's __dict__
    op,         \* the last operation called
    arg,        \* its arguments
    res,        \* its outcome: exception, calls on the method, returned shape
    fitDone,    \* history: a fit() has returned normally on the instance
    cp          \* the instance copy() returned, if any, and the calls made since

vars == <<alive, self, op, arg, res, fitDone, cp>>

----------------------------------------------------------------------------
(* Bounds of the model *)

\* the largest array extent
MaxDim == 2
\* at most MaxKw keyword arguments are passed to the constructor
MaxKw == 2
\* at most MaxOps assignments and clears follow a copy()
MaxOps == 2

----------------------------------------------------------------------------
(* Values *)

None == <<>>
Some(v) == <<v>>

NoneObj == "None"

\* kernels.normal_kernel and npr_methods.default_method
normal_kernel == "normal_kernel"
default_method == "default_method"

\* shapes of the arrays handed to the constructor and to the xdata/ydata setters
\* (a vector of MaxDim samples, MaxDim x 1 samples, a rank-3 array; a scalar
\* response and a 2-D response)
Rank3Shape == <<1, 1, 1>>
XInputs == {<<MaxDim>>, <<MaxDim, 1>>, Rank3Shape}
YInputs == {<<>>, <<1, 1>>}
\* shapes handed to the lower/upper setters: a scalar and a 2-D array
BoundInputs == {<<>>, <<1, 1>>}
\* kernel instances, kernel classes, methods a caller may assign
KernelValues == {"k1"}
KernelClassValues == {"kc1"}
MethodValues == {"m1"}
\* bandwidth / covariance arguments: a fixed value or a callable
BwInputs == {[callable |-> FALSE, id |-> "v1"], [callable |-> TRUE, id |-> "f1"]}

\* an array holding a bound: its shape and what it is filled with
Array(shape, fill) == [shape |-> shape, fill |-> fill]

\* np.atleast_2d on shapes
atleast_2d(sh) ==
    IF Len(sh) = 0 THEN <<1, 1>>
    ELSE IF Len(sh) = 1 THEN <<1, sh[1]>>
    ELSE sh

\* np.atleast_1d on shapes
atleast_1d(sh) == IF Len(sh) = 0 THEN <<1>> ELSE sh

\* the outcome of a call: the fields after it, the exception raised ("none" when
\* the call returns), the calls made on the method object, the shape of the
\* returned array and the shape the caller's output buffer is left with
Outcome(s, e, calls, out, buf) ==
    [s |-> s, err |-> e, calls |-> calls, out |-> out, buf |-> buf]
Ret(s) == Outcome(s, "none", <<>>, None, None)
Raise(s, e) == Outcome(s, e, <<>>, None, None)

----------------------------------------------------------------------------
(* Name resolution: the names bound at module level (imports and the class) *)

ModuleGlobals ==
    [n \in {"division", "absolute_import", "print_function", "stats", "sqrtm",
            "solve", "scipy", "np", "irange", "npr_methods", "kernels",
            "numpy_method_idx", "NonParamRegression"} |-> "imported"]

\* a name read in a method body resolves to a local, else to a module global
NameBound(locals, n) == n \in locals \/ n \in DOMAIN ModuleGlobals

----------------------------------------------------------------------------
(* Property setters *)

\* kernel.setter without the line that clears _kernel_class
kernel_set_keeps_class(s, k) == Ret([s EXCEPT !._kernel = k])

\* kernel.setter
kernel_set(s, k) == Ret([s EXCEPT !._kernel_class = NoneObj, !._kernel = k])

\* kernel_class.setter
kernel_class_set(s, k) == Ret([s EXCEPT !._kernel = NoneObj, !._kernel_class = k])

\* bandwidth.setter without the line that clears _cov_fct
bandwidth_set_keeps_cov_fct(s, bw) ==
    LET s1 == [s EXCEPT !._bw_fct = NoneObj]
    IN  IF bw.callable
        THEN Ret([s1 EXCEPT !._bw_fct = bw.id])
        ELSE Ret([s1 EXCEPT !._bandwidth = bw.id, !._covariance = NoneObj])

\* bandwidth.setter
bandwidth_set(s, bw) ==
    LET s1 == [s EXCEPT !._bw_fct = NoneObj, !._cov_fct = NoneObj]
    IN  IF bw.callable
        THEN Ret([s1 EXCEPT !._bw_fct = bw.id])
        ELSE Ret([s1 EXCEPT !._bandwidth = bw.id, !._covariance = NoneObj])

\* covariance.setter
covariance_set(s, cov) ==
    LET s1 == [s EXCEPT !._bw_fct = NoneObj, !._cov_fct = NoneObj]
    IN  IF cov.callable
        THEN Ret([s1 EXCEPT !._cov_fct = cov.id])
        ELSE Ret([s1 EXCEPT !._covariance = cov.id, !._bandwidth = NoneObj])

\* lower.setter
lower_set(s, l) ==
    LET l1 == atleast_1d(l)
    IN  IF Len(l1) # 1 THEN Raise(s, "AssertionError:lower")
        ELSE Ret([s EXCEPT !._lower = Some(Array(l1, "user"))])

\* lower.deleter
lower_del(s) == Ret([s EXCEPT !._lower = None])

\* upper.setter
upper_set(s, l) ==
    LET l1 == atleast_1d(l)
    IN  IF Len(l1) # 1 THEN Raise(s, "AssertionError:upper")
        ELSE Ret([s EXCEPT !._upper = Some(Array(l1, "user"))])

\* upper.deleter
upper_del(s) == Ret([s EXCEPT !._upper = None])

\* xdata.setter
xdata_set(s, xd) ==
    LET xd1 == atleast_2d(xd)
    IN  IF Len(xd1) # 2 THEN Raise(s, "AssertionError:xdata")
        ELSE Ret([s EXCEPT !._xdata = xd1])

\* ydata.setter
ydata_set(s, yd) ==
    LET yd1 == atleast_1d(yd)
    IN  IF Len(yd1) # 1 THEN Raise(s, "AssertionError:ydata")
        ELSE Ret([s EXCEPT !._ydata = yd1])

\* method.setter
method_set(s, m) == Ret([s EXCEPT !._method = m])

\* the properties of the class that have no setter
ReadOnlyProperties == {"N", "dim"}

\* setattr(self, kw, v): a property's setter runs, a property without a setter
\* refuses, and any other name is written into the instance's __dict__
setattr(s, kw, v) ==
    CASE kw = "kernel"       -> kernel_set(s, v)
      [] kw = "kernel_class" -> kernel_class_set(s, v)
      [] kw = "bandwidth"    -> bandwidth_set(s, v)
      [] kw = "covariance"   -> covariance_set(s, v)
      [] kw = "lower"        -> lower_set(s, v)
      [] kw = "upper"        -> upper_set(s, v)
      [] kw = "xdata"        -> xdata_set(s, v)
      [] kw = "ydata"        -> ydata_set(s, v)
      [] kw = "method"       -> method_set(s, v)
      [] kw \in ReadOnlyProperties -> Raise(s, "AttributeError")
      [] kw \in DOMAIN s \ {"attrs"} -> Ret([s EXCEPT ![kw] = v])
      [] OTHER -> Ret([s EXCEPT !.attrs = @ \cup {kw}])

----------------------------------------------------------------------------
(* Construction and copy *)

\* the fields as lines 28-41 of __init__ leave them; attrs holds the names of
\* the attributes of the instance other than these
InitFields(xdata, ydata) ==
    [_xdata |-> atleast_2d(xdata),
     _ydata |-> atleast_1d(ydata),
     _kernel_class |-> NoneObj,
     _covariance |-> NoneObj,
     _cov_fct |-> NoneObj,
     _bandwidth |-> NoneObj,
     _bw_fct |-> NoneObj,
     _method |-> NoneObj,
     _fitted |-> FALSE,
     _kernel |-> NoneObj,
     _lower |-> None,
     _upper |-> None,
     _n |-> None,
     _d |-> None,
     attrs |-> {}]

\* for kw in kwords: setattr(self, kw, kwords[kw]); the first exception ends it
RECURSIVE ApplyKwords(_, _)
ApplyKwords(s, kwords) ==
    IF kwords = <<>> THEN Ret(s)
    ELSE LET r == setattr(s, kwords[1].key, kwords[1].val)
         IN  IF r.err # "none" THEN r ELSE ApplyKwords(r.s, Tail(kwords))

\* NonParamRegression.__init__
init(xdata, ydata, kwords) ==
    LET r == ApplyKwords(InitFields(xdata, ydata), kwords)
    IN  IF r.err # "none" THEN r
        ELSE LET s1 == IF r.s._kernel = NoneObj
                       THEN kernel_class_set(r.s, normal_kernel).s
                       ELSE r.s
                 s2 == IF s1._method = NoneObj
                       THEN [s1 EXCEPT !._method = default_method]
                       ELSE s1
             IN  Ret(s2)

\* the private members copy() walks: the names of __dict__ that start with a
\* single underscore
PrivateMembers(s) == DOMAIN s \ {"attrs"}

\* copy() that returns the instance itself instead of a new one
copy_returns_self(s) == [ref |-> "m", fields |-> s]

\* NonParamRegression.copy: a new instance ("c") holding, for every private
\* member, obj.copy() when the object has one (an equal array) and the object
\* itself otherwise; no other attribute is carried over
copy(s) ==
    [ref |-> "c",
     fields |-> [f \in DOMAIN s |-> IF f \in PrivateMembers(s) THEN s[f] ELSE {}]]

----------------------------------------------------------------------------
(* fit and evaluate *)

\* what a call of self._method.fit(self) or self._method.evaluate(...) may do:
\* return or raise
MethodOutcomes == {"returns", "raises"}

\* lines 222-230 of fit, with D and N as the names resolve
fit_body(s, D, N, mfit) ==
    IF s._ydata[1] # N THEN Raise(s, "AssertionError:xy")
    ELSE LET s1 == IF s._lower = None
                   THEN [s EXCEPT !._lower = Some(Array(<<N>>, "-inf"))]
                   ELSE s
             s2 == IF s1._upper = None
                   THEN [s1 EXCEPT !._upper = Some(Array(<<N>>, "inf"))]
                   ELSE s1
             s3 == [s2 EXCEPT !._n = Some(N), !._d = Some(D)]
             call == [name |-> "method.fit", model |-> s3]
         IN  IF mfit = "raises"
             THEN Outcome(s3, "MethodError", <<call>>, None, None)
             ELSE Outcome([s3 EXCEPT !._fitted = TRUE], "none", <<call>>,
                          None, None)

\* fit with line 221 an unpacking in the wrong order: N, D = self._xdata.shape
fit_unpacks_swapped(s, mfit) ==
    IF Len(s._xdata) # 2 THEN Raise(s, "ValueError")
    ELSE fit_body(s, s._xdata[2], s._xdata[1], mfit)

\* NonParamRegression.fit: line 221 is the expression (D, N == self._xdata.shape),
\* which reads D and N and binds nothing
fit(s, mfit) ==
    LET locals == {"self"}
    IN  IF ~NameBound(locals, "D") \/ ~NameBound(locals, "N")
        THEN Raise(s, "NameError")
        ELSE fit_body(s, ModuleGlobals["D"], ModuleGlobals["N"], mfit)

\* real_shape[-1:]
LastAxis(sh) == IF Len(sh) = 0 THEN <<>> ELSE <<sh[Len(sh)]>>

RECURSIVE Size(_)
Size(sh) == IF sh = <<>> THEN 1 ELSE sh[1] * Size(Tail(sh))

\* evaluate with the rank assertion written len(real_shape) < 4
evaluate_rank_off_by_one(s, points, out, meval) ==
    LET real_shape == points
        points2 == IF Len(real_shape) = 0 THEN <<1, 1>>
                   ELSE IF Len(real_shape) = 1 THEN <<1, real_shape[1]>>
                   ELSE points
        M == points2[Len(points2)]
        call == [name |-> "method.evaluate", points |-> points2, out |-> <<M>>]
    IN  IF ~(Len(real_shape) < 4) THEN Outcome(s, "AssertionError:points", <<>>, None, out)
        ELSE IF out = None THEN Raise(s, "NameError")
        ELSE IF Size(out[1]) # M THEN Outcome(s, "ValueError", <<>>, None, out)
        ELSE IF meval = "raises"
        THEN Outcome(s, "MethodError", <<call>>, None, Some(<<M>>))
        ELSE Outcome(s, "none", <<call>>, Some(LastAxis(real_shape)),
                     Some(LastAxis(real_shape)))

\* evaluate with the reshaped points assigned to self._xdata instead of the
\* local name
evaluate_keeps_points(s, points, out, meval) ==
    LET real_shape == points
        points2 == IF Len(real_shape) = 0 THEN <<1, 1>>
                   ELSE IF Len(real_shape) = 1 THEN <<1, real_shape[1]>>
                   ELSE points
        M == points2[Len(points2)]
        s1 == [s EXCEPT !._xdata = points2]
        call == [name |-> "method.evaluate", points |-> points2, out |-> <<M>>]
    IN  IF ~(Len(real_shape) < 3) THEN Outcome(s, "AssertionError:points", <<>>, None, out)
        ELSE IF out = None THEN Raise(s1, "NameError")
        ELSE IF Size(out[1]) # M THEN Outcome(s1, "ValueError", <<>>, None, out)
        ELSE IF meval = "raises"
        THEN Outcome(s1, "MethodError", <<call>>, None, Some(<<M>>))
        ELSE Outcome(s1, "none", <<call>>, Some(LastAxis(real_shape)),
                     Some(LastAxis(real_shape)))

\* NonParamRegression.evaluate; points is the shape of the query array, out is
\* None or Some(shape of the caller's buffer)
evaluate(s, points, out, meval) ==
    LET locals == {"self", "points", "out", "real_shape"}
        real_shape == points
        points2 == IF Len(real_shape) = 0 THEN <<1, 1>>
                   ELSE IF Len(real_shape) = 1 THEN <<1, real_shape[1]>>
                   ELSE points
        M == points2[Len(points2)]
        call == [name |-> "method.evaluate", points |-> points2, out |-> <<M>>]
    IN  IF ~(Len(real_shape) < 3) THEN Outcome(s, "AssertionError:points", <<>>, None, out)
        ELSE IF out = None /\ ~NameBound(locals, "y")
        THEN Raise(s, "NameError")
        ELSE IF out # None /\ Size(out[1]) # M
        THEN Outcome(s, "ValueError", <<>>, None, out)
        ELSE IF meval = "raises"
        THEN Outcome(s, "MethodError", <<call>>, None,
                     IF out = None THEN None ELSE Some(<<M>>))
        ELSE Outcome(s, "none", <<call>>, Some(LastAxis(real_shape)),
                     IF out = None THEN None ELSE Some(LastAxis(real_shape)))

\* NonParamRegression.__call__
call(s, points, out, meval) == evaluate(s, points, out, meval)

----------------------------------------------------------------------------
(* The state machine: one instance, constructed once, then any sequence of
   calls *)

\* keyword arguments a caller may pass to the constructor: the documented
\* options, a read-only property, a private field and an unknown name
KwInputs ==
    {[key |-> "kernel", val |-> k] : k \in KernelValues}
    \cup {[key |-> "kernel_class", val |-> k] : k \in KernelClassValues}
    \cup {[key |-> "bandwidth", val |-> b] : b \in BwInputs}
    \cup {[key |-> "covariance", val |-> b] : b \in BwInputs}
    \cup {[key |-> "method", val |-> m] : m \in MethodValues}
    \cup {[key |-> "lower", val |-> l] : l \in BoundInputs}
    \cup {[key |-> "upper", val |-> l] : l \in BoundInputs}
    \cup {[key |-> "N", val |-> 1], [key |-> "_fitted", val |-> TRUE],
          [key |-> "foo", val |-> 1]}

\* the keyword dictionaries of at most n entries, in iteration order
RECURSIVE Kwords(_)
Kwords(n) ==
    IF n = 0 THEN {<<>>}
    ELSE LET shorter == Kwords(n - 1)
         IN  shorter \cup
             {Append(q, a) : <<q, a>> \in
                 {<<q, a>> \in shorter \X KwInputs :
                     \A i \in 1..Len(q) : q[i].key # a.key}}

\* shapes of the query points handed to evaluate (a scalar, a vector, the
\* training points themselves, a rank-3 array) and of the output buffers
PointInputs(s) == {<<>>, <<MaxDim>>, s._xdata, Rank3Shape}
OutInputs == {None, Some(<<1>>), Some(<<MaxDim>>)}

Result(r) == [err |-> r.err, calls |-> r.calls, out |-> r.out, buf |-> r.buf]

\* no copy has been made
NoCopy == [made |-> FALSE, ref |-> "m", twin |-> InitFields(<<>>, <<>>), nops |-> 0]

Init ==
    /\ alive = FALSE
    /\ self = InitFields(<<>>, <<>>)
    /\ op = "none"
    /\ arg = <<>>
    /\ res = Result(Ret(self))
    /\ fitDone = FALSE
    /\ cp = NoCopy

\* m = NonParamRegression(xdata, ydata, **kwords); an exception leaves no instance
Construct ==
    /\ op = "none"
    /\ \E xdata \in XInputs, ydata \in YInputs, kwords \in Kwords(MaxKw) :
          LET r == init(xdata, ydata, kwords)
          IN  /\ alive' = (r.err = "none")
              /\ self' = IF r.err = "none" THEN r.s ELSE self
              /\ op' = "init"
              /\ arg' = [xdata |-> xdata, ydata |-> ydata, kwords |-> kwords]
              /\ res' = Result(r)
    /\ UNCHANGED <<fitDone, cp>>

\* a call on the instance: the fields are left as they were when it returned or
\* raised
Called(name, a, r) ==
    /\ alive
    /\ self' = r.s
    /\ op' = name
    /\ arg' = a
    /\ res' = Result(r)
    /\ UNCHANGED alive

SetKernel ==
    /\ \E k \in KernelValues : Called("kernel", k, kernel_set(self, k))
    /\ UNCHANGED <<fitDone, cp>>

SetKernelClass ==
    /\ \E k \in KernelClassValues \cup {normal_kernel} :
          Called("kernel_class", k, kernel_class_set(self, k))
    /\ UNCHANGED <<fitDone, cp>>

SetBandwidth ==
    /\ \E bw \in BwInputs : Called("bandwidth", bw, bandwidth_set(self, bw))
    /\ UNCHANGED <<fitDone, cp>>

SetCovariance ==
    /\ \E cov \in BwInputs : Called("covariance", cov, covariance_set(self, cov))
    /\ UNCHANGED <<fitDone, cp>>

SetLower ==
    /\ \E l \in BoundInputs : Called("lower", l, lower_set(self, l))
    /\ UNCHANGED <<fitDone, cp>>

DelLower ==
    /\ Called("del lower", <<>>, lower_del(self))
    /\ UNCHANGED <<fitDone, cp>>

SetUpper ==
    /\ \E l \in BoundInputs : Called("upper", l, upper_set(self, l))
    /\ UNCHANGED <<fitDone, cp>>

DelUpper ==
    /\ Called("del upper", <<>>, upper_del(self))
    /\ UNCHANGED <<fitDone, cp>>

SetXdata ==
    /\ \E xd \in XInputs : Called("xdata", xd, xdata_set(self, xd))
    /\ UNCHANGED <<fitDone, cp>>

SetYdata ==
    /\ \E yd \in YInputs : Called("ydata", yd, ydata_set(self, yd))
    /\ UNCHANGED <<fitDone, cp>>

SetMethod ==
    /\ \E m \in MethodValues \cup {default_method} :
          Called("method", m, method_set(self, m))
    /\ UNCHANGED <<fitDone, cp>>

Fit ==
    \E mfit \in MethodOutcomes :
        LET r == fit(self, mfit)
        IN  /\ Called("fit", <<>>, r)
            /\ fitDone' = (fitDone \/ r.err = "none")
            /\ UNCHANGED cp

Evaluate ==
    /\ \E points \in PointInputs(self), out \in OutInputs, meval \in MethodOutcomes :
          Called("evaluate", [points |-> points, out |-> out],
                 evaluate(self, points, out, meval))
    /\ UNCHANGED <<fitDone, cp>>

Call ==
    /\ \E points \in PointInputs(self), out \in OutInputs, meval \in MethodOutcomes :
          Called("__call__", [points |-> points, out |-> out],
                 call(self, points, out, meval))
    /\ UNCHANGED <<fitDone, cp>>

Next ==
    \/ Construct
    \/ SetKernel \/ SetKernelClass
    \/ SetBandwidth \/ SetCovariance
    \/ SetLower \/ DelLower \/ SetUpper \/ DelUpper
    \/ SetXdata \/ SetYdata
    \/ SetMethod
    \/ Fit
    \/ Evaluate \/ Call

Spec == Init /\ [][Next]_vars

----------------------------------------------------------------------------
(* Two instances: c = m.copy(), then assignments and clears on m and on c *)

\* the assignments a caller may make through the properties
AssignInputs ==
    {kv \in KwInputs : kv.key \in {"kernel", "kernel_class", "bandwidth",
                                   "covariance", "method", "lower", "upper"}}
    \cup {[key |-> "xdata", val |-> xd] : xd \in XInputs}
    \cup {[key |-> "ydata", val |-> yd] : yd \in YInputs}

\* the fields of the instance the name c is bound to
CopyFields == IF cp.ref = "m" THEN self ELSE cp.twin

\* c = m.copy()
Copy ==
    /\ alive /\ ~cp.made
    /\ LET r == copy(self)
       IN  cp' = [made |-> TRUE, ref |-> r.ref, twin |-> r.fields, nops |-> 0]
    /\ op' = "copy"
    /\ arg' = <<>>
    /\ res' = Result(Ret(self))
    /\ UNCHANGED <<alive, self, fitDone>>

\* a call on the instance named who ("m" or "c"), with outcome r
TwinCalled(who, name, val, r) ==
    /\ self' = IF who = "m" \/ cp.ref = "m" THEN r.s ELSE self
    /\ cp' = [cp EXCEPT !.twin = IF who = "c" /\ cp.ref = "c" THEN r.s ELSE @,
                        !.nops = @ + 1]
    /\ op' = name
    /\ arg' = [who |-> who, val |-> val]
    /\ res' = Result(r)
    /\ UNCHANGED <<alive, fitDone>>

\* who.key = val
TwinAssign ==
    /\ alive /\ cp.made /\ cp.nops < MaxOps
    /\ \E who \in {"m", "c"}, kv \in AssignInputs :
          TwinCalled(who, kv.key, kv.val,
                     setattr(IF who = "m" THEN self ELSE CopyFields, kv.key, kv.val))

\* del who.lower, del who.upper
TwinClear ==
    /\ alive /\ cp.made /\ cp.nops < MaxOps
    /\ \E who \in {"m", "c"} :
          LET s == IF who = "m" THEN self ELSE CopyFields
          IN  \/ TwinCalled(who, "del lower", <<>>, lower_del(s))
              \/ TwinCalled(who, "del upper", <<>>, upper_del(s))

NextCopy == Construct \/ Copy \/ TwinAssign \/ TwinClear

SpecCopy == Init /\ [][NextCopy]_vars

----------------------------------------------------------------------------
(* Properties *)

\* the data is a D x N matrix and a vector
WellShaped(s) == Len(s._xdata) = 2 /\ Len(s._ydata) = 1
\* ... with as many responses as samples
Matching(s) == WellShaped(s) /\ s._ydata[1] = s._xdata[2]
\* kernel and method are the defaults the constructor installs
Defaults(s) == s._kernel_class = normal_kernel /\ s._method = default_method

\* the bound holds a vector the caller assigned
UserSet(b) == b # None /\ b[1].fill = "user"

EvalOps == {"evaluate", "__call__"}
ConfigOps ==
    {"xdata", "ydata", "kernel", "kernel_class", "bandwidth", "covariance",
     "method", "lower", "upper"}
ConfigKeys ==
    {"kernel", "kernel_class", "bandwidth", "covariance", "method", "lower", "upper"}

\* C1: on matching data with the default kernel and method, fit() returns
\* normally and marks the model fitted, and evaluate(xdata) on the fitted model
\* returns normally with one value per training point.
C1_FitThenEvaluate ==
    alive /\ Matching(self) /\ Defaults(self) =>
        /\ op = "fit" => res.err = "none" /\ self._fitted
        /\ op \in EvalOps /\ fitDone /\ arg.points = self._xdata =>
              res.err = "none" /\ res.out = Some(<<self._xdata[2]>>)

\* C2: after bandwidth is assigned no covariance value and no covariance
\* callable is stored, and after covariance is assigned no bandwidth value and
\* no bandwidth callable is stored.
C2_BandwidthCovarianceExclusive ==
    alive =>
        /\ op = "bandwidth" =>
              self._covariance = NoneObj /\ self._cov_fct = NoneObj
        /\ op = "covariance" =>
              self._bandwidth = NoneObj /\ self._bw_fct = NoneObj

\* C3: at most one of kernel and kernel_class is set, in the constructed
\* instance and after every assignment; assigning kernel stores it and leaves
\* kernel_class unset, assigning kernel_class stores it and leaves kernel unset.
C3_KernelExclusive ==
    alive =>
        /\ self._kernel = NoneObj \/ self._kernel_class = NoneObj
        /\ op = "kernel" => self._kernel = arg /\ self._kernel_class = NoneObj
        /\ op = "kernel_class" => self._kernel_class = arg /\ self._kernel = NoneObj

\* the constructor has assigned kernel_class and then kernel: only kernel is set
C3_Witness ==
    /\ alive /\ op = "init"
    /\ arg.kwords = <<[key |-> "kernel_class", val |-> "kc1"],
                      [key |-> "kernel", val |-> "k1"]>>
    /\ self._kernel = "k1" /\ self._kernel_class = NoneObj

\* C4: constructing with one configuration key k=v gives the fields that
\* constructing without it and then assigning k=v through the setter gives.
C4_ConstructLikeSetter ==
    alive /\ op = "init" /\ Len(arg.kwords) = 1
          /\ arg.kwords[1].key \in ConfigKeys =>
        self = setattr(init(arg.xdata, arg.ydata, <<>>).s,
                       arg.kwords[1].key, arg.kwords[1].val).s

\* C5: with a sample-count mismatch the constructor returns an instance and
\* fit() raises the sample-count assertion, leaving the model not fitted.
C5_MismatchAtFit ==
    alive /\ op = "fit" /\ WellShaped(self) /\ ~Matching(self) =>
        res.err = "AssertionError:xy" /\ ~fitDone

\* C6: the constructor raises a shape error for xdata of rank above 2 and for
\* ydata of rank above 1, as the setters do.
C6_ConstructRejectsRank ==
    op = "init" /\ (Len(arg.xdata) > 2 \/ Len(arg.ydata) > 1) =>
        ~alive /\ res.err \in {"AssertionError:xdata", "AssertionError:ydata"}

\* C7: evaluate() and the call operator on a model on which no fit() has
\* completed raise and do not call the method's evaluate, with or without an
\* output buffer.
C7_EvaluateNeedsFit ==
    alive /\ op \in EvalOps /\ ~fitDone =>
        res.err # "none" /\ res.calls = <<>>

\* C8: after a configuration change (an assignment to xdata, ydata, kernel,
\* kernel_class, bandwidth, covariance, method, lower or upper) the fitted flag
\* is false.
C8_ChangeInvalidatesFit ==
    alive /\ op \in ConfigOps /\ res.err = "none" => ~self._fitted

C10_DefaultBoundsSizedByDim ==
    alive /\ op = "fit" /\ Matching(self) =>
        /\ ~UserSet(self._lower) =>
              self._lower = Some(Array(<<self._xdata[1]>>, "-inf"))
        /\ ~UserSet(self._upper) =>
              self._upper = Some(Array(<<self._xdata[1]>>, "inf"))

C12_UnknownKeyRejected ==
    op = "init" /\ (\E i \in 1..Len(arg.kwords) : arg.kwords[i].key \notin ConfigKeys) =>
        ~alive /\ res.err # "none"

\* the number of query columns of evaluate's points argument
QueryColumns(points) == IF Len(points) = 0 THEN 1 ELSE points[Len(points)]

\* C14: for accepted points (rank at most 2), with no output buffer or with one
\* of as many elements as query columns, and a method whose evaluate returns,
\* evaluate returns an array of shape () for a scalar and (M,) for a vector of
\* length M or a D x M matrix, after one call of the method's evaluate with a
\* 2-D points matrix and a buffer of length M.
C14_ResultShapeFollowsRank ==
    alive /\ op \in EvalOps /\ Len(arg.points) < 3
          /\ (arg.out = None \/ Size(arg.out[1]) = QueryColumns(arg.points))
          /\ res.err # "MethodError" =>
        /\ res.err = "none"
        /\ res.out = Some(LastAxis(arg.points))
        /\ Len(res.calls) = 1
        /\ Len(res.calls[1].points) = 2
        /\ res.calls[1].out = <<QueryColumns(arg.points)>>

\* C15: evaluate() and the call operator leave every field of the model as it
\* was, whether they return or raise.
C15_EvaluateReadOnly ==
    [][alive /\ op' \in EvalOps => self' = self]_vars

\* evaluate has delegated to the method and returned
C15_Witness ==
    alive /\ op \in EvalOps /\ res.err = "none" /\ Len(res.calls) = 1

\* C16: the lower and upper accessors never return None.
C16_BoundsNeverNone ==
    alive => self._lower # None /\ self._upper # None

\* C17: fit() on matching data calls the method's fit exactly once, with the
\* model already holding N, dim, lower and upper, and sets the fitted flag
\* exactly when that call has returned.
C17_FitStepOrder ==
    alive /\ op = "fit" /\ Matching(self) =>
        /\ Len(res.calls) = 1
        /\ res.calls[1].name = "method.fit"
        /\ res.calls[1].model._n = Some(self._xdata[2])
        /\ res.calls[1].model._d = Some(self._xdata[1])
        /\ res.calls[1].model._lower # None /\ res.calls[1].model._upper # None
        /\ ~res.calls[1].model._fitted
        /\ res.err = "none" => self._fitted

\* C18: evaluate on points of rank above 2 raises the rank assertion without
\* calling the method's evaluate and without touching the caller's buffer.
C18_RankCheckedFirst ==
    alive /\ op \in EvalOps /\ Len(arg.points) > 2 =>
        /\ res.err = "AssertionError:points"
        /\ res.calls = <<>>
        /\ res.buf = arg.out

\* evaluate has been called with rank-3 points and a buffer of another size
C18_Witness ==
    /\ alive /\ op = "evaluate" /\ arg.points = Rank3Shape
    /\ arg.out = Some(<<MaxDim>>) /\ res.err = "AssertionError:points"

\* C19: at most one of the two callables and at most one of the two fixed
\* values is stored.
C19_AtMostOneOfEach ==
    alive =>
        /\ self._bw_fct = NoneObj \/ self._cov_fct = NoneObj
        /\ self._bandwidth = NoneObj \/ self._covariance = NoneObj

\* a covariance callable has been assigned after a callable bandwidth and a
\* fixed bandwidth: only the covariance callable is stored
C19_Witness ==
    /\ alive /\ op = "covariance" /\ arg.callable
    /\ self._cov_fct = "f1" /\ self._bw_fct = NoneObj /\ self._bandwidth = "v1"

\* C13: right after c = m.copy() every private field of c equals that of m,
\* and from then on an assignment or clear on c leaves every field of m as it
\* was, and one on m leaves every field of c as it was.
C13_CopyIndependent ==
    [][/\ op' = "copy" =>
            \A f \in PrivateMembers(self) : CopyFields'[f] = self[f]
       /\ cp.made /\ arg'.who = "c" => self' = self
       /\ cp.made /\ arg'.who = "m" => CopyFields' = CopyFields]_vars

\* after the copy, xdata (copied) and kernel (shared) have been assigned on c:
\* c differs from m in both
C13_Witness ==
    /\ cp.made /\ cp.nops = 2 /\ arg.who = "c"
    /\ CopyFields._xdata # self._xdata
    /\ CopyFields._kernel # self._kernel

====
